---- MODULE Spec2Model ----
(***************************************************************************)
(* Model of the batch runner of primoui/utils: processBatch,               *)
(* processBatchWithErrorHandling, processWithConcurrency and               *)
(* splitArrayIntoChunks.                                                   *)
(*                                                                         *)
(* One step of the model is one run of the JavaScript event loop's         *)
(* synchronous code: from the resumption of an await to the next await.    *)
(* The processor is external: each of its promises settles at a time and   *)
(* with an outcome the runner does not control (action Settle).            *)
(* Items are pairwise distinct, so an item names its processor invocation. *)
(***************************************************************************)
EXTENDS Integers, Sequences, FiniteSets, TLC

\* Bounds of the model.
MaxItems == 4
MaxBatchSize == MaxItems
MaxConcurrency == MaxItems - 1
\* Bounds of the runs with options outside the documented range.
MaxItemsAnyOptions == 2
MinOption == 0 - 1
MaxChunkIterations == 3
Delays == {0, 50}

VARIABLES
    items,          \* the items argument
    batchSize,      \* options.batchSize
    concurrencyOpt, \* options.concurrency: <<c>>, or <<>> when omitted
    delay,          \* options.delay (0 stands for an omitted delay too)
    entry,          \* which exported function was called
    onError,        \* options.onError: "absent", "returns" or "throws"
    pc,             \* where the runner is suspended
    batches,        \* const batches of processBatch
    bi,             \* index of the current batch (1-based; i + 1 in the code)
    k,              \* position in the batch of the next item of the for-of loop
    executing,      \* const executing of processWithConcurrency (items name promises)
    batchResults,   \* the array processWithConcurrency fills and returns
    results,        \* const results of processBatch
    inv,            \* per item: the promise processWithConcurrency got from processor(item)
    proc,           \* per item: how the caller's processor call ended
    awaited,        \* the promise the runner is suspended on
    rejection,      \* the reason the returned promise rejected with, or NoValue
    started,        \* items in the order processor was called on them
    onErrorCalls,   \* the (error, item) pairs onError was called with, in order
    pauses,         \* number of sleep(delay) calls made
    firstRejected,  \* the first invocation seen by the runner to reject, or NoItem
    url,            \* checkUrlAvailability: the url argument
    successStatusBelowOpt, \* options.successStatusBelow: <<n>>, or <<>> when omitted
    timeoutOpt,     \* options.timeout: <<ms>>, or <<>> when omitted
    upc,            \* where checkUrlAvailability is: "idle", "HEAD", "GET" or "done"
    requests,       \* the fetch calls made, in order: method, outcome, status
    timers,         \* per request, the timer makeRequest set: state and duration
    returned        \* <<b>> once checkUrlAvailability returned b, else <<>>

\* The state of checkUrlAvailability.
urlVars == <<url, successStatusBelowOpt, timeoutOpt, upc, requests, timers, returned>>

vars == <<items, batchSize, concurrencyOpt, delay, entry, onError, pc, batches, bi, k,
          executing, batchResults, results, inv, proc, awaited, rejection, started,
          onErrorCalls, pauses, firstRejected, urlVars>>

NoItem == 0

\* ---------------------------------------------------------------- values

\* The i-th work item of the input (distinct from its index).
ItemAt(i) == 100 + i

NoValue == [kind |-> "undefined", of |-> NoItem, msg |-> ""]

\* The value processor(item) fulfils with.
Result(item) == [kind |-> "result", of |-> item, msg |-> ""]

\* What the processor throws: an Error object, or a non-Error value (a string).
Thrown(outcome, item) ==
    IF outcome = "throwError"
    THEN [kind |-> "Error", of |-> item, msg |-> "failed"]
    ELSE IF item % 2 = 1
         THEN [kind |-> "string", of |-> item, msg |-> "String error"]
         ELSE [kind |-> "null", of |-> item, msg |-> ""]

\* String(v) for the values a processor throws here.
StringOf(v) ==
    CASE v.kind = "string" -> v.msg
      [] v.kind = "null" -> "null"
      [] v.kind = "undefined" -> "undefined"
      [] v.kind = "Error" -> "Error: " \o v.msg

\* What a throwing onError callback throws.
OnErrorException(item) == [kind |-> "Error", of |-> item, msg |-> "onError threw"]

ProcOutcomes == {"ok", "throwError", "throwValue"}

Pending == [st |-> "pending", v |-> NoValue]
Idle == [st |-> "idle", v |-> NoValue]
NotAwaiting == [st |-> "none", v |-> NoValue]

Range(s) == {s[j] : j \in 1..Len(s)}

MinOf(S) == CHOOSE x \in S : \A y \in S : x <= y

\* ---------------------------------------------------------------- helpers

\* Array.prototype.slice(from, to): negative arguments count from the end.
SliceIndex(x, len) ==
    IF x < 0 THEN (IF len + x < 0 THEN 0 ELSE len + x)
    ELSE (IF x > len THEN len ELSE x)

Slice(s, from, to) == SubSeq(s, SliceIndex(from, Len(s)) + 1, SliceIndex(to, Len(s)))

\* The loop going on while i + chunkSize <= items.length: a short tail is dropped.
RECURSIVE ChunkLoopWholeOnly(_, _, _, _)
ChunkLoopWholeOnly(its, chunkSize, i, chunks) ==
    IF i + chunkSize <= Len(its)
    THEN ChunkLoopWholeOnly(its, chunkSize, i + chunkSize,
                            Append(chunks, Slice(its, i, i + chunkSize)))
    ELSE chunks

\* The for loop of splitArrayIntoChunks, from index i with chunks collected so far.
RECURSIVE ChunkLoop(_, _, _, _)
ChunkLoop(its, chunkSize, i, chunks) ==
    IF i < Len(its)
    THEN ChunkLoop(its, chunkSize, i + chunkSize,
                   Append(chunks, Slice(its, i, i + chunkSize)))
    ELSE chunks

\* splitArrayIntoChunks with slices one element too long: chunks overlap.
RECURSIVE ChunkLoopOverlapping(_, _, _, _)
ChunkLoopOverlapping(its, chunkSize, i, chunks) ==
    IF i < Len(its)
    THEN ChunkLoopOverlapping(its, chunkSize, i + chunkSize,
                              Append(chunks, Slice(its, i, i + chunkSize + 1)))
    ELSE chunks

splitArrayIntoChunksOverlapping(its, chunkSize) ==
    ChunkLoopOverlapping(its, chunkSize, 0, <<>>)

splitArrayIntoChunks(its, chunkSize) == ChunkLoop(its, chunkSize, 0, <<>>)

\* const { concurrency = 1 } in place of concurrency = batchSize.
concurrencyDefaultsToOne == IF concurrencyOpt = <<>> THEN 1 ELSE concurrencyOpt[1]

\* const { batchSize, concurrency = batchSize, delay = 0 } = options
concurrency == IF concurrencyOpt = <<>> THEN batchSize ELSE concurrencyOpt[1]

\* A Promise.all that takes no account of promises settled before it was created.
PromiseAllIgnoresSettled(ps, iv) == Pending

\* Promise.all(ps) at the moment it is created, given the promises' states.
PromiseAll(ps, iv) ==
    LET rej == {j \in 1..Len(ps) : iv[ps[j]].st = "rejected"}
    IN  IF rej # {} THEN [st |-> "rejected", v |-> iv[ps[MinOf(rej)]].v]
        ELSE IF \A j \in 1..Len(ps) : iv[ps[j]].st = "fulfilled"
             THEN [st |-> "fulfilled", v |-> NoValue]
             ELSE Pending

\* A Promise.race that takes no account of promises settled before it was created.
PromiseRaceIgnoresSettled(ps, iv) == Pending

\* Promise.race(ps) at the moment it is created: of the promises already
\* settled, the first in array order wins.
PromiseRace(ps, iv) ==
    LET done == {j \in 1..Len(ps) : iv[ps[j]].st # "pending"}
    IN  IF done # {} THEN [st |-> iv[ps[MinOf(done)]].st,
                           v |-> IF iv[ps[MinOf(done)]].st = "rejected"
                                 THEN iv[ps[MinOf(done)]].v ELSE NoValue]
        ELSE Pending

\* The loop without line 618: nothing is removed from executing.
SpliceNothing(exec, promise) == exec

\* executing.splice(0, executing.length - executing.filter(p => p !== promise).length)
SpliceCompleted(exec, promise) ==
    LET IsOther(p) == p # promise
        deleteCount == Len(exec) - Len(SelectSeq(exec, IsOther))
    IN  SubSeq(exec, SliceIndex(deleteCount, Len(exec)) + 1, Len(exec))

\* The for-of loop of processWithConcurrency from position kk of the batch, run
\* up to its next await: Promise.race inside the loop or Promise.all after it.
RECURSIVE ConcurrencyLoop(_, _, _, _, _)
ConcurrencyLoop(batch, kk, exec, iv, st) ==
    IF kk > Len(batch)
    THEN [pc |-> "drain", k |-> kk, executing |-> exec, inv |-> iv, started |-> st,
          awaited |-> PromiseAll(exec, iv)]
    ELSE LET item == batch[kk]
             iv2 == [iv EXCEPT ![item] = Pending]
             exec2 == Append(exec, item)
         IN  IF Len(exec2) >= concurrency
             THEN [pc |-> "race", k |-> kk + 1, executing |-> exec2, inv |-> iv2,
                   started |-> Append(st, item), awaited |-> PromiseRace(exec2, iv2)]
             ELSE ConcurrencyLoop(batch, kk + 1, exec2, iv2, Append(st, item))

\* items.map(processor): every item's invocation is started, in order.
MapProcessor(batch, iv) ==
    [it \in DOMAIN iv |-> IF it \in Range(batch) THEN Pending ELSE iv[it]]

\* processWithConcurrency mapping the processor over the batch from its last
\* item to its first.
processWithConcurrencyBackwards(batch, iv, st) ==
    IF concurrency >= Len(batch)
    THEN [pc |-> "all", k |-> Len(batch) + 1, executing |-> <<>>,
          inv |-> MapProcessor(batch, iv),
          started |-> st \o [j \in 1..Len(batch) |-> batch[Len(batch) + 1 - j]],
          awaited |-> PromiseAll(batch, MapProcessor(batch, iv))]
    ELSE ConcurrencyLoop(batch, 1, <<>>, iv, st)

\* processWithConcurrency(batch, processor, concurrency) up to its first await.
processWithConcurrency(batch, iv, st) ==
    IF concurrency >= Len(batch)
    THEN [pc |-> "all", k |-> Len(batch) + 1, executing |-> <<>>,
          inv |-> MapProcessor(batch, iv), started |-> st \o batch,
          awaited |-> PromiseAll(batch, MapProcessor(batch, iv))]
    ELSE ConcurrencyLoop(batch, 1, <<>>, iv, st)

\* wrappedProcessor with a catch block that reports the error and rethrows it.
wrappedProcessorRethrows(outcome, item) ==
    IF outcome = "ok"
    THEN [st |-> "fulfilled", v |-> Result(item), calls |-> <<>>]
    ELSE LET error == Thrown(outcome, item)
             err == IF error.kind = "Error" THEN error
                    ELSE [kind |-> "Error", of |-> error.of, msg |-> StringOf(error)]
         IN  [st |-> "rejected", v |-> err,
              calls |-> IF onError = "absent" THEN <<>>
                        ELSE <<[error |-> err, item |-> item]>>]

\* wrappedProcessor swallowing what onError throws: try/catch around line 583.
wrappedProcessorSwallows(outcome, item) ==
    IF outcome = "ok"
    THEN [st |-> "fulfilled", v |-> Result(item), calls |-> <<>>]
    ELSE LET error == Thrown(outcome, item)
             err == IF error.kind = "Error" THEN error
                    ELSE [kind |-> "Error", of |-> error.of, msg |-> StringOf(error)]
         IN  [st |-> "fulfilled", v |-> err,
              calls |-> IF onError = "absent" THEN <<>>
                        ELSE <<[error |-> err, item |-> item]>>]

\* wrappedProcessor handing the caught value on as it is: err = error.
wrappedProcessorNoNormalize(outcome, item) ==
    IF outcome = "ok"
    THEN [st |-> "fulfilled", v |-> Result(item), calls |-> <<>>]
    ELSE LET err == Thrown(outcome, item)
         IN  IF onError = "absent"
             THEN [st |-> "fulfilled", v |-> err, calls |-> <<>>]
             ELSE IF onError = "throws"
                  THEN [st |-> "rejected", v |-> OnErrorException(item),
                        calls |-> <<[error |-> err, item |-> item]>>]
                  ELSE [st |-> "fulfilled", v |-> err,
                        calls |-> <<[error |-> err, item |-> item]>>]

\* The promise wrappedProcessor(item) settles to once processor(item) ended
\* with the given outcome, and the onError calls it makes on the way.
wrappedProcessor(outcome, item) ==
    IF outcome = "ok"
    THEN [st |-> "fulfilled", v |-> Result(item), calls |-> <<>>]
    ELSE LET error == Thrown(outcome, item)
             err == IF error.kind = "Error" THEN error
                    ELSE [kind |-> "Error", of |-> error.of, msg |-> StringOf(error)]
         IN  IF onError = "absent"
             THEN [st |-> "fulfilled", v |-> err, calls |-> <<>>]
             ELSE IF onError = "throws"
                  THEN [st |-> "rejected", v |-> OnErrorException(item),
                        calls |-> <<[error |-> err, item |-> item]>>]
                  ELSE [st |-> "fulfilled", v |-> err,
                        calls |-> <<[error |-> err, item |-> item]>>]

\* The caller's processor itself: its promise rejects with what it threw.
plainProcessor(outcome, item) ==
    IF outcome = "ok"
    THEN [st |-> "fulfilled", v |-> Result(item), calls |-> <<>>]
    ELSE [st |-> "rejected", v |-> Thrown(outcome, item), calls |-> <<>>]

\* processBatchWithErrorHandling handing the caller's processor on unwrapped.
ProcessorUnwrapped(outcome, item) == plainProcessor(outcome, item)

\* The processor that processBatch hands to processWithConcurrency.
Processor(outcome, item) ==
    IF entry = "processBatchWithErrorHandling"
    THEN wrappedProcessor(outcome, item)
    ELSE plainProcessor(outcome, item)

BatchOf(item) == CHOOSE b \in 1..Len(batches) : item \in Range(batches[b])

\* The promises the suspended runner is subscribed to.
Watched ==
    IF pc = "all" THEN Range(batches[bi])
    ELSE IF pc \in {"race", "drain"} THEN Range(executing)
    ELSE {}

\* ---------------------------------------------------------------- state machine

\* The state before the call, with the arguments drawn from the given sets.
InitWith(lengths, batchSizes, concurrencies) ==
    /\ items \in {[i \in 1..n |-> ItemAt(i)] : n \in lengths}
    /\ batchSize \in batchSizes
    /\ concurrencyOpt \in {<<>>} \cup {<<c>> : c \in concurrencies}
    /\ delay \in Delays
    /\ entry \in {"processBatch", "processBatchWithErrorHandling"}
    /\ onError \in {"absent", "returns", "throws"}
    /\ entry = "processBatch" => onError = "absent"
    /\ pc = "idle"
    /\ batches = <<>>
    /\ bi = 0
    /\ k = 0
    /\ executing = <<>>
    /\ batchResults = <<>>
    /\ results = <<>>
    /\ inv = [it \in Range(items) |-> Idle]
    /\ proc = [it \in Range(items) |-> "none"]
    /\ awaited = NotAwaiting
    /\ rejection = NoValue
    /\ started = <<>>
    /\ onErrorCalls = <<>>
    /\ pauses = 0
    /\ firstRejected = NoItem

\* checkUrlAvailability is not called in the runs of the batch runner.
UrlNotCalled ==
    /\ url = ""
    /\ successStatusBelowOpt = <<>>
    /\ timeoutOpt = <<>>
    /\ upc = "idle"
    /\ requests = <<>>
    /\ timers = <<>>
    /\ returned = <<>>

\* Arguments as documented: batchSize and concurrency are positive integers.
Init == InitWith(0..MaxItems, 1..MaxBatchSize, 1..MaxConcurrency) /\ UrlNotCalled

\* Arguments of any sign: batchSize and concurrency may be zero or negative.
InitAnyOptions ==
    /\ InitWith(0..MaxItemsAnyOptions, MinOption..MaxItemsAnyOptions,
                MinOption..MaxItemsAnyOptions)
    /\ UrlNotCalled

\* The runner enters batch b: processWithConcurrency runs to its first await.
EnterBatch(b) ==
    LET r == processWithConcurrency(batches'[b], inv, started)
    IN  /\ bi' = b
        /\ pc' = r.pc
        /\ k' = r.k
        /\ executing' = r.executing
        /\ inv' = r.inv
        /\ started' = r.started
        /\ awaited' = r.awaited
        /\ batchResults' = <<>>

\* A runner that records the rejection and goes on with what is left: the
\* error of processWithConcurrency is caught around line 553 and the loop goes on.
RejectAndGoOn(reason) ==
    /\ pc' = "ret"
    /\ rejection' = reason
    /\ awaited' = NotAwaiting
    /\ UNCHANGED <<batches, bi, k, executing, batchResults, results, inv, started, pauses>>

\* processWithConcurrency throws: the await in processBatch rethrows, and the
\* promise of processBatch rejects with the same reason.
Reject(reason) ==
    /\ pc' = "rejected"
    /\ rejection' = reason
    /\ awaited' = NotAwaiting
    /\ UNCHANGED <<batches, bi, k, executing, batchResults, results, inv, started, pauses>>

\* processBatch validating its options: a batchSize below 1 rejects the call.
CallValidatesBatchSize ==
    /\ pc = "idle"
    /\ IF Len(items) = 0
       THEN /\ pc' = "resolved"
            /\ UNCHANGED <<batches, bi, k, executing, batchResults, inv, started, awaited,
                           rejection>>
       ELSE IF batchSize >= 1
            THEN /\ batches' = splitArrayIntoChunks(items, batchSize)
                 /\ EnterBatch(1)
                 /\ UNCHANGED rejection
            ELSE /\ pc' = "rejected"
                 /\ rejection' = [kind |-> "Error", of |-> NoItem, msg |-> "batchSize"]
                 /\ UNCHANGED <<batches, bi, k, executing, batchResults, inv, started,
                                awaited>>
    /\ UNCHANGED <<urlVars, items, batchSize, concurrencyOpt, delay, entry, onError, results,
                   proc, onErrorCalls, pauses, firstRejected>>

\* processBatch with await sleep(delay) moved in front of the empty check.
CallPausesFirst ==
    /\ pc = "idle"
    /\ IF delay > 0
       THEN /\ pc' = "sleep"
            /\ pauses' = pauses + 1
            /\ batches' = splitArrayIntoChunks(items, IF batchSize < 1 THEN 1 ELSE batchSize)
            /\ UNCHANGED <<bi, k, executing, batchResults, inv, started, awaited>>
       ELSE /\ pc' = "resolved"
            /\ UNCHANGED <<batches, bi, k, executing, batchResults, inv, started, awaited,
                           pauses>>
    /\ UNCHANGED <<urlVars, items, batchSize, concurrencyOpt, delay, entry, onError, results, proc,
                   rejection, onErrorCalls, firstRejected>>

\* The exported function is called: its synchronous part up to the first await.
\* With a batchSize below 1 the for loop of splitArrayIntoChunks is entered and
\* its iterations are steps of their own (ChunkIteration).
Call ==
    /\ pc = "idle"
    /\ IF Len(items) = 0
       THEN /\ pc' = "resolved"
            /\ UNCHANGED <<batches, bi, k, executing, batchResults, inv, started, awaited>>
       ELSE IF batchSize >= 1
            THEN /\ batches' = splitArrayIntoChunks(items, batchSize)
                 /\ EnterBatch(1)
            ELSE /\ pc' = "chunking"
                 /\ UNCHANGED <<batches, bi, k, executing, batchResults, inv, started,
                                awaited>>
    /\ UNCHANGED <<urlVars, items, batchSize, concurrencyOpt, delay, entry, onError, results, proc,
                   rejection, onErrorCalls, pauses, firstRejected>>

\* One iteration of the for loop of splitArrayIntoChunks: i is chunkSize times
\* the number of iterations made, and the loop goes on while i < items.length.
ChunkIteration ==
    /\ pc = "chunking"
    /\ Len(batches) * batchSize < Len(items)
    /\ Len(batches) < MaxChunkIterations
    /\ batches' = Append(batches, Slice(items, Len(batches) * batchSize,
                                        Len(batches) * batchSize + batchSize))
    /\ UNCHANGED <<urlVars, items, batchSize, concurrencyOpt, delay, entry, onError, pc, bi, k,
                   executing, batchResults, results, inv, proc, awaited, rejection, started,
                   onErrorCalls, pauses, firstRejected>>

\* processor(item) ends with the given outcome; the reactions to it run: the
\* catch block of wrappedProcessor, the then callback of the bounded path, and
\* the Promise.race or Promise.all the runner is suspended on.
Settle(item, outcome) ==
    /\ inv[item].st = "pending"
    /\ LET w == Processor(outcome, item)
           pushes == /\ w.st = "fulfilled"
                     /\ pc \in {"race", "drain", "ret"}
                     /\ bi = BatchOf(item)
                     /\ concurrency < Len(batches[bi])
           others == Watched \ {item}
       IN  /\ inv' = [inv EXCEPT ![item] = [st |-> w.st, v |-> w.v]]
           /\ proc' = [proc EXCEPT ![item] = outcome]
           /\ onErrorCalls' = onErrorCalls \o w.calls
           /\ batchResults' = IF pushes THEN Append(batchResults, w.v) ELSE batchResults
           /\ firstRejected' = IF firstRejected = NoItem /\ w.st = "rejected"
                               THEN item ELSE firstRejected
           /\ awaited' =
                IF awaited.st = "pending" /\ item \in Watched
                THEN IF w.st = "rejected" THEN [st |-> "rejected", v |-> w.v]
                     ELSE IF pc = "race" \/ \A o \in others : inv[o].st = "fulfilled"
                          THEN [st |-> "fulfilled", v |-> NoValue]
                          ELSE awaited
                ELSE awaited
    /\ UNCHANGED <<urlVars, items, batchSize, concurrencyOpt, delay, entry, onError, pc, batches, bi,
                   k, executing, results, rejection, started, pauses>>

\* await Promise.race(executing) resumes: splice, then the loop goes on.
RaceResume ==
    /\ pc = "race"
    /\ awaited.st \in {"fulfilled", "rejected"}
    /\ IF awaited.st = "rejected"
       THEN Reject(awaited.v)
       ELSE LET promise == executing[Len(executing)]
                r == ConcurrencyLoop(batches[bi], k, SpliceCompleted(executing, promise),
                                     inv, started)
            IN  /\ pc' = r.pc
                /\ k' = r.k
                /\ executing' = r.executing
                /\ inv' = r.inv
                /\ started' = r.started
                /\ awaited' = r.awaited
                /\ UNCHANGED <<batches, bi, batchResults, results, rejection, pauses>>
    /\ UNCHANGED <<urlVars, items, batchSize, concurrencyOpt, delay, entry, onError, proc,
                   onErrorCalls, firstRejected>>

\* await Promise.all(executing) resumes: processWithConcurrency returns results.
DrainResume ==
    /\ pc = "drain"
    /\ awaited.st \in {"fulfilled", "rejected"}
    /\ IF awaited.st = "rejected"
       THEN Reject(awaited.v)
       ELSE /\ pc' = "ret"
            /\ awaited' = NotAwaiting
            /\ UNCHANGED <<batches, bi, k, executing, batchResults, results, inv, started,
                           rejection, pauses>>
    /\ UNCHANGED <<urlVars, items, batchSize, concurrencyOpt, delay, entry, onError, proc,
                   onErrorCalls, firstRejected>>

\* Promise.all(items.map(processor)) settles: its values are in item order.
AllResume ==
    /\ pc = "all"
    /\ awaited.st \in {"fulfilled", "rejected"}
    /\ IF awaited.st = "rejected"
       THEN Reject(awaited.v)
       ELSE /\ pc' = "ret"
            /\ batchResults' = [j \in 1..Len(batches[bi]) |-> inv[batches[bi][j]].v]
            /\ awaited' = NotAwaiting
            /\ UNCHANGED <<batches, bi, k, executing, results, inv, started, rejection, pauses>>
    /\ UNCHANGED <<urlVars, items, batchSize, concurrencyOpt, delay, entry, onError, proc,
                   onErrorCalls, firstRejected>>

\* processBatch pausing after every batch, the last one included: the test
\* i < batches.length - 1 of line 557 is dropped.
BatchDonePausesAfterLast ==
    /\ pc = "ret"
    /\ results' = results \o batchResults
    /\ UNCHANGED batches
    /\ IF delay > 0
       THEN /\ pc' = "sleep"
            /\ pauses' = pauses + 1
            /\ awaited' = Pending
            /\ UNCHANGED <<bi, k, executing, batchResults, inv, started>>
       ELSE /\ UNCHANGED pauses
            /\ IF bi < Len(batches)
               THEN EnterBatch(bi + 1)
               ELSE /\ pc' = "resolved"
                    /\ awaited' = NotAwaiting
                    /\ UNCHANGED <<bi, k, executing, batchResults, inv, started>>
    /\ UNCHANGED <<urlVars, items, batchSize, concurrencyOpt, delay, entry, onError, proc,
                   rejection, onErrorCalls, firstRejected>>

\* processBatch resumes with batchResults: push, then sleep, next batch or return.
BatchDone ==
    /\ pc = "ret"
    /\ results' = results \o batchResults
    /\ UNCHANGED batches
    /\ IF delay > 0 /\ bi - 1 < Len(batches) - 1
       THEN /\ pc' = "sleep"
            /\ pauses' = pauses + 1
            /\ awaited' = Pending
            /\ UNCHANGED <<bi, k, executing, batchResults, inv, started>>
       ELSE /\ UNCHANGED pauses
            /\ IF bi < Len(batches)
               THEN EnterBatch(bi + 1)
               ELSE /\ pc' = "resolved"
                    /\ awaited' = NotAwaiting
                    /\ UNCHANGED <<bi, k, executing, batchResults, inv, started>>
    /\ UNCHANGED <<urlVars, items, batchSize, concurrencyOpt, delay, entry, onError, proc,
                   rejection, onErrorCalls, firstRejected>>

\* await sleep(delay) resumes: the for-of loop of processBatch takes the next batch.
SleepDone ==
    /\ pc = "sleep"
    /\ UNCHANGED batches
    /\ EnterBatch(bi + 1)
    /\ UNCHANGED <<urlVars, items, batchSize, concurrencyOpt, delay, entry, onError, results, proc,
                   rejection, onErrorCalls, pauses, firstRejected>>

SettleSome == \E item \in Range(items), outcome \in ProcOutcomes : Settle(item, outcome)

Next ==
    \/ Call
    \/ SettleSome
    \/ RaceResume
    \/ DrainResume
    \/ AllResume
    \/ BatchDone
    \/ SleepDone

Spec == Init /\ [][Next]_vars

\* Spec with the scheduling the event loop gives: the call is made, a promise
\* that has settled resumes the runner awaiting it, the timer of sleep fires,
\* and - the hypothesis of the termination claim - an invocation that is in
\* flight settles.
FairSpec ==
    /\ Spec
    /\ WF_vars(Call)
    /\ WF_vars(SettleSome)
    /\ WF_vars(RaceResume)
    /\ WF_vars(DrainResume)
    /\ WF_vars(AllResume)
    /\ WF_vars(BatchDone)
    /\ WF_vars(SleepDone)

NextAnyOptions ==
    \/ Call
    \/ ChunkIteration
    \/ SettleSome
    \/ RaceResume
    \/ DrainResume
    \/ AllResume
    \/ BatchDone
    \/ SleepDone

\* The runs with batchSize and concurrency of any sign.
SpecAnyOptions == InitAnyOptions /\ [][NextAnyOptions]_vars

\* ---------------------------------------------------------------- checkUrlAvailability

DefaultTimeout == 5000
DefaultSuccessStatusBelow == 400

\* The statuses a response carries and the option values explored.
Statuses == {200, 301, 399, 400, 404, 500}
SuccessStatusBelowOptions == {<<>>, <<300>>, <<500>>}
TimeoutOptions == {<<>>, <<100>>}
Urls == {"", "https://example.com"}

\* const { timeout = 5000, successStatusBelow = 400 } = options
timeout == IF timeoutOpt = <<>> THEN DefaultTimeout ELSE timeoutOpt[1]
successStatusBelow ==
    IF successStatusBelowOpt = <<>> THEN DefaultSuccessStatusBelow
    ELSE successStatusBelowOpt[1]

\* The test with <= in place of <.
IsSuccessInclusive(response) ==
    response.outcome = "response" /\ response.status <= successStatusBelow

\* response !== null && response.status < successStatusBelow, for what
\* makeRequest returned: a response, or null when fetch threw or was aborted.
IsSuccess(response) ==
    response.outcome = "response" /\ response.status < successStatusBelow

\* makeRequest(method) up to its await: a timer is set and fetch is called.
makeRequest(method) ==
    /\ upc' = method
    /\ requests' = Append(requests, [method |-> method, outcome |-> "pending", status |-> 0])
    /\ timers' = Append(timers, [st |-> "armed", ms |-> timeout])
    /\ UNCHANGED returned

\* checkUrlAvailability returns b.
Return(b) ==
    /\ upc' = "done"
    /\ returned' = <<b>>

\* makeRequest with clearTimeout on the success path only: the catch block
\* returns null and leaves the timer as it is.
CompletedClearsOnSuccessOnly(response, timerState) ==
    LET n == Len(requests)
        done == [requests EXCEPT ![n] = response]
        off == IF response.outcome = "response"
               THEN [timers EXCEPT ![n].st = timerState] ELSE timers
    IN  IF upc = "HEAD"
        THEN IF IsSuccess(response)
             THEN /\ Return(TRUE)
                  /\ requests' = done
                  /\ timers' = off
             ELSE /\ upc' = "GET"
                  /\ requests' = Append(done, [method |-> "GET", outcome |-> "pending",
                                               status |-> 0])
                  /\ timers' = Append(off, [st |-> "armed", ms |-> timeout])
                  /\ UNCHANGED returned
        ELSE /\ Return(IsSuccess(response))
             /\ requests' = done
             /\ timers' = off

\* makeRequest returned the given response to checkUrlAvailability, with the
\* timer of the request left in the given state: after HEAD the function
\* returns true or falls back to GET, after GET it returns.
Completed(response, timerState) ==
    LET n == Len(requests)
        done == [requests EXCEPT ![n] = response]
        off == [timers EXCEPT ![n].st = timerState]
    IN  IF upc = "HEAD"
        THEN IF IsSuccess(response)
             THEN /\ Return(TRUE)
                  /\ requests' = done
                  /\ timers' = off
             ELSE /\ upc' = "GET"
                  /\ requests' = Append(done, [method |-> "GET", outcome |-> "pending",
                                               status |-> 0])
                  /\ timers' = Append(off, [st |-> "armed", ms |-> timeout])
                  /\ UNCHANGED returned
        ELSE /\ Return(IsSuccess(response))
             /\ requests' = done
             /\ timers' = off

BatchVars ==
    <<items, batchSize, concurrencyOpt, delay, entry, onError, pc, batches, bi, k, executing,
      batchResults, results, inv, proc, awaited, rejection, started, onErrorCalls, pauses,
      firstRejected>>

\* checkUrlAvailability is called: an empty url returns false, any other url
\* starts the HEAD request.
UrlCall ==
    /\ upc = "idle"
    /\ IF url = ""
       THEN /\ Return(FALSE)
            /\ UNCHANGED <<requests, timers>>
       ELSE makeRequest("HEAD")
    /\ UNCHANGED <<url, successStatusBelowOpt, timeoutOpt, BatchVars>>

\* fetch resolves with a response: the timer is cleared, the response returned.
FetchResponds ==
    /\ upc \in {"HEAD", "GET"}
    /\ \E status \in Statuses :
          Completed([method |-> upc, outcome |-> "response", status |-> status], "cleared")
    /\ UNCHANGED <<url, successStatusBelowOpt, timeoutOpt, BatchVars>>

\* fetch rejects (network error): the catch block clears the timer, returns null.
FetchThrows ==
    /\ upc \in {"HEAD", "GET"}
    /\ Completed([method |-> upc, outcome |-> "threw", status |-> 0], "cleared")
    /\ UNCHANGED <<url, successStatusBelowOpt, timeoutOpt, BatchVars>>

\* The timer fires: controller.abort() makes fetch reject, the catch block
\* returns null (clearTimeout of the fired timer changes nothing).
TimerFires ==
    /\ upc \in {"HEAD", "GET"}
    /\ timers[Len(timers)].st = "armed"
    /\ Completed([method |-> upc, outcome |-> "aborted", status |-> 0], "fired")
    /\ UNCHANGED <<url, successStatusBelowOpt, timeoutOpt, BatchVars>>

InitUrl ==
    /\ InitWith({0}, {1}, {1})
    /\ concurrencyOpt = <<>>
    /\ delay = 0
    /\ entry = "processBatch"
    /\ url \in Urls
    /\ successStatusBelowOpt \in SuccessStatusBelowOptions
    /\ timeoutOpt \in TimeoutOptions
    /\ upc = "idle"
    /\ requests = <<>>
    /\ timers = <<>>
    /\ returned = <<>>

NextUrl ==
    \/ UrlCall
    \/ FetchResponds
    \/ FetchThrows
    \/ TimerFires

\* The runs of checkUrlAvailability.
SpecUrl == InitUrl /\ [][NextUrl]_vars

\* ---------------------------------------------------------------- properties

Resolved == pc = "resolved"
Rejected == pc = "rejected"
Plain == entry = "processBatch"
Isolated == entry = "processBatchWithErrorHandling"
BoundedPath(b) == concurrency < Len(batches[b])

\* Invocations that have been started and have not settled.
InFlight == {it \in Range(items) : inv[it].st = "pending"}

Failed(it) == proc[it] \in {"throwError", "throwValue"}

Occurrences(s, x) == Cardinality({j \in 1..Len(s) : s[j] = x})

OnErrorCallsFor(it) == Cardinality({j \in 1..Len(onErrorCalls) : onErrorCalls[j].item = it})

MinNat(a, b) == IF a < b THEN a ELSE b

\* C1: when processBatch resolves, the entry at index i of the returned array
\* is the result of processor(items[i]), for every index i of items.
C1_ResultsInInputOrder ==
    (Plain /\ Resolved) =>
        \A i \in 1..Len(items) : i <= Len(results) /\ results[i] = Result(items[i])

\* C2: whenever processBatch or processBatchWithErrorHandling resolves, the
\* returned array has exactly items.length entries.
C2_ResultLengthEqualsInput ==
    Resolved => Len(results) = Len(items)

\* C3: in every state of a processBatch run the number of started, unsettled processor
\* invocations is at most min(concurrency, length of the current batch).
C3_InFlightBounded ==
    (Plain /\ bi >= 1) => Cardinality(InFlight) <= MinNat(concurrency, Len(batches[bi]))

\* C4: in a processBatch run no invocation for an item of a later batch has
\* been started while an invocation for an item of an earlier batch is still
\* unsettled.
C4_BatchesSequential ==
    Plain => \A a \in Range(started), b \in Range(started) :
        BatchOf(a) < BatchOf(b) => inv[a].st # "pending"

\* C5: processBatch never resolves in a run where a started processor
\* invocation rejected.
C5_FailFast ==
    (Plain /\ Resolved) => \A it \in Range(items) : inv[it].st # "rejected"

\* C6: with onError absent or not throwing, processBatchWithErrorHandling never
\* rejects, and it never stops short of resolving: in every state either the
\* promise has resolved or a step of the run is still possible.
C6_IsolatedNeverRejects ==
    (Isolated /\ onError # "throws") => (~Rejected /\ (Resolved \/ ENABLED Next))

C6_Witness ==
    /\ Isolated /\ onError # "throws" /\ Resolved
    /\ \E it \in Range(items) : Failed(it)
    /\ \E it \in Range(items) : proc[it] = "ok"

\* C7: in the array processBatchWithErrorHandling returns, the entry at index i
\* is an Error captured for items[i] exactly when processor failed for
\* items[i], and is otherwise the result of processor(items[i]).
C7_IsolatedEntriesAtOwnIndex ==
    (Isolated /\ onError # "throws" /\ Resolved) =>
        \A i \in 1..Len(items) :
            /\ i <= Len(results)
            /\ results[i].of = items[i]
            /\ (results[i].kind = "Error") <=> Failed(items[i])
            /\ ~Failed(items[i]) => results[i] = Result(items[i])

\* C8: by the time the promise of processBatchWithErrorHandling resolves,
\* onError has been invoked exactly once for each item whose processor call
\* failed and never for another item: at resolution the calls are one per
\* failed item, and no onError call is made after the promise has resolved.
C8_OnErrorOncePerFailedItem ==
    [][(Isolated /\ onError = "returns" /\ Resolved') =>
          /\ \A it \in Range(items) :
                OnErrorCallsFor(it)' = IF Failed(it)' THEN 1 ELSE 0
          /\ Resolved => onErrorCalls' = onErrorCalls]_vars

\* C9: when a run of processBatchWithErrorHandling has ended, the processor
\* has been invoked for every input item.
C9_EveryItemAttempted ==
    (Isolated /\ (Resolved \/ Rejected)) =>
        \A it \in Range(items) : Occurrences(started, it) >= 1

\* C9 as amended: when onError is absent or does not throw, a run of
\* processBatchWithErrorHandling that has ended, or can take no further step,
\* has invoked the processor for every input item.
C9_EveryItemAttemptedUnlessOnErrorThrows ==
    (Isolated /\ onError # "throws" /\ (Resolved \/ Rejected \/ ~ENABLED Next)) =>
        \A it \in Range(items) : Occurrences(started, it) >= 1

C9_Witness ==
    /\ Isolated /\ onError # "throws" /\ Resolved
    /\ Len(batches) >= 2
    /\ Len(batches[1]) >= 2
    /\ Failed(batches[1][1])
    /\ \A it \in Range(items) : Occurrences(started, it) >= 1

\* C10: the processor is invoked at most once per input item, and exactly once
\* per input item in every run that resolves.
C10_EachItemProcessedOnce ==
    \A it \in Range(items) :
        /\ Occurrences(started, it) <= 1
        /\ Resolved => Occurrences(started, it) = 1

C10_Witness ==
    /\ Resolved
    /\ Len(batches) >= 2
    /\ \E b \in 1..Len(batches) : BoundedPath(b)
    /\ \A it \in Range(items) : Occurrences(started, it) = 1

\* C11: with an empty items array the call resolves to an empty array without
\* invoking processor, onError or the pause, whatever batchSize, concurrency
\* and delay are: before the call nothing has happened, and the call resolves
\* in its first step.
C11_EmptyInputResolvesEmpty ==
    Len(items) = 0 =>
        /\ pc \in {"idle", "resolved"}
        /\ pc = "idle" => ENABLED Call
        /\ results = <<>>
        /\ started = <<>>
        /\ onErrorCalls = <<>>
        /\ pauses = 0

C11_Witness ==
    /\ Len(items) = 0 /\ Resolved /\ results = <<>>
    /\ batchSize < 1 /\ concurrency < 1 /\ delay > 0
    /\ Isolated /\ onError = "returns"

\* C12: at the moment processBatch resolves, every processor invocation the
\* run started has settled: none is still in flight.
C12_NoneInFlightAtResolve == (Plain /\ Resolved) => InFlight = {}

\* C13: with delay > 0 the runner has paused exactly once before each batch
\* after the first, so a resolved run of m batches has m - 1 pauses and none
\* follows the last batch; with delay = 0 it never pauses; and no processor
\* invocation is started while a pause is in progress.
C13_PausesBetweenBatches ==
    [][ /\ pauses' = IF delay > 0 /\ bi' >= 1
                     THEN (IF pc' = "sleep" THEN bi' ELSE bi' - 1)
                     ELSE 0
        /\ pc' = "sleep" => (delay > 0 /\ bi' < Len(batches'))
        /\ (pc' = "resolved" /\ Len(items) > 0 /\ delay > 0) => pauses' = Len(batches') - 1
        /\ (pc = "sleep" /\ pc' = "sleep") => started' = started ]_vars

C13_Witness ==
    /\ Resolved /\ delay > 0 /\ Len(batches) = 3 /\ pauses = 2
    /\ Len(started) >= 3

\* C14: when concurrency (batchSize when omitted) is at least the length of a
\* batch, the step that enters the batch starts the processor on every item of
\* it before the runner waits: all of them are in flight together.
C14_WholeBatchStartedTogether ==
    [][ (bi' # bi /\ (concurrencyOpt = <<>> \/ concurrencyOpt[1] >= Len(batches'[bi'])))
        => \A j \in 1..Len(batches'[bi']) :
              /\ inv'[batches'[bi'][j]].st = "pending"
              /\ Occurrences(started', batches'[bi'][j]) = 1 ]_vars

C14_Witness ==
    /\ bi = 2 /\ pc = "all" /\ Len(batches[bi]) = 2
    /\ concurrencyOpt = <<2>>
    /\ \A j \in 1..Len(batches[bi]) : inv[batches[bi][j]].st = "pending"

C14_WitnessDefault ==
    /\ bi = 1 /\ pc = "all" /\ Len(batches[bi]) = 3
    /\ concurrencyOpt = <<>>
    /\ \A j \in 1..Len(batches[bi]) : inv[batches[bi][j]].st = "pending"

\* The Error the claim expects for a failed item: the thrown value itself when
\* it is an Error, otherwise a new Error whose message is String(value).
C15_Expected(it) ==
    LET thrown == Thrown(proc[it], it)
    IN  IF proc[it] = "throwError" THEN thrown
        ELSE [kind |-> "Error", of |-> it,
              msg |-> IF thrown.kind = "null" THEN "null" ELSE thrown.msg]

\* C15: in processBatchWithErrorHandling a processor failure with an Error
\* hands that very value to onError and to the result array; a failure with
\* any other value v hands on a new Error whose message is String(v). This
\* holds of every onError call, of the value every wrapped invocation fulfils
\* with, and of every entry of the result array that is not a processor result.
C15_ErrorNormalization ==
    Isolated =>
        /\ \A j \in 1..Len(onErrorCalls) :
              /\ Failed(onErrorCalls[j].item)
              /\ onErrorCalls[j].error = C15_Expected(onErrorCalls[j].item)
        /\ \A it \in Range(items) :
              (Failed(it) /\ inv[it].st = "fulfilled") => inv[it].v = C15_Expected(it)
        /\ \A j \in 1..Len(results) :
              results[j].kind # "result" =>
                  (Failed(results[j].of) /\ results[j] = C15_Expected(results[j].of))

C15_Witness ==
    /\ Isolated /\ onError = "returns" /\ Resolved
    /\ \E a, b, c \in 1..Len(results) :
          /\ results[a] = [kind |-> "Error", of |-> ItemAt(1), msg |-> "failed"]
          /\ results[b] = [kind |-> "Error", of |-> ItemAt(2), msg |-> "null"]
          /\ results[c] = [kind |-> "Error", of |-> ItemAt(3), msg |-> "String error"]
    /\ \E j \in 1..Len(onErrorCalls) :
          onErrorCalls[j] = [error |-> [kind |-> "Error", of |-> ItemAt(2), msg |-> "null"],
                             item |-> ItemAt(2)]

\* The array of the run in which the invocations settle in input order.
C16_InOrderArray == [i \in 1..Len(items) |-> Result(items[i])]

\* A bounded-path run of three items whose invocations settled in input order
\* and which returned C16_InOrderArray.
C16_InOrderRun ==
    /\ Plain /\ Resolved
    /\ Len(items) = 3 /\ batchSize = 3 /\ concurrencyOpt = <<2>>
    /\ \A it \in Range(items) : proc[it] = "ok" /\ inv[it].st = "fulfilled"
    /\ results = C16_InOrderArray

\* C16: two runs of processBatch with the same items, the same configuration
\* and a pure, never-failing processor return identical arrays whatever the
\* settlement orders. One such run, the one settling in input order, returns
\* C16_InOrderArray, so every resolved run in which every invocation settled
\* without failing returns that array.
C16_Deterministic ==
    (Plain /\ Resolved /\ \A it \in Range(items) : inv[it].st = "fulfilled")
        => results = C16_InOrderArray

\* C17: for batchSize >= 1 and concurrency >= 1, if every started invocation
\* eventually settles, the promise of processBatch eventually settles; and the
\* runner never waits on settled invocations only: while it is suspended with
\* its awaited promise pending, one of the invocations it awaits is in flight.
C17_Terminates ==
    /\ <>(Resolved \/ Rejected)
    /\ [](awaited.st = "pending" /\ pc \in {"all", "race", "drain"}
            => \E it \in Watched : inv[it].st = "pending")

C17_Witness ==
    /\ Plain /\ Resolved
    /\ Len(batches) >= 2
    /\ \E b \in 1..Len(batches) : BoundedPath(b)
    /\ InFlight = {}

RECURSIVE C19_Concat(_)
C19_Concat(chunks) ==
    IF chunks = <<>> THEN <<>> ELSE Head(chunks) \o C19_Concat(Tail(chunks))

\* C19: for chunkSize >= 1, splitArrayIntoChunks returns ceil(length /
\* chunkSize) chunks whose concatenation is the input, every chunk but the
\* last of exactly chunkSize elements, the last of 1 to chunkSize elements,
\* and no chunk for an empty input; these are the batches the runner works on.
C19_ChunksPartitionInput ==
    LET chunks == splitArrayIntoChunks(items, batchSize)
        m == Len(chunks)
    IN  /\ m = (Len(items) + batchSize - 1) \div batchSize
        /\ C19_Concat(chunks) = items
        /\ \A c \in 1..(m - 1) : Len(chunks[c]) = batchSize
        /\ m >= 1 => (1 <= Len(chunks[m]) /\ Len(chunks[m]) <= batchSize)
        /\ Len(items) = 0 => chunks = <<>>
        /\ pc # "idle" => batches = chunks

C19_Witness ==
    /\ pc # "idle" /\ Len(items) = 4 /\ batchSize = 3
    /\ batches = <<<<ItemAt(1), ItemAt(2), ItemAt(3)>>, <<ItemAt(4)>>>>

\* C20: when processBatch rejects, the rejection reason is the error of the
\* invocation that rejected earliest among all the invocations of the call.
C20_FirstRejectionWins ==
    (Plain /\ Rejected) => (firstRejected # NoItem /\ rejection = inv[firstRejected].v)

\* C18: checkUrlAvailability with a non-empty url issues HEAD first; it issues
\* GET exactly when HEAD threw, was aborted or returned a status >=
\* successStatusBelow; at most one HEAD and one GET, never both in flight; it
\* returns true exactly when the last request issued returned a status <
\* successStatusBelow. With an empty url it returns false without a request.
C18_HeadThenGetFallback ==
    LET n == Len(requests)
        Below(r) == r.outcome = "response" /\ r.status < successStatusBelow
    IN  /\ url = "" => (requests = <<>> /\ (upc = "done" => returned = <<FALSE>>))
        /\ (url # "" /\ upc # "idle") => n >= 1
        /\ n <= 2
        /\ n >= 1 => requests[1].method = "HEAD"
        /\ n = 2 => requests[2].method = "GET"
        /\ (n >= 1 /\ requests[1].outcome # "pending") => (n = 2 <=> ~Below(requests[1]))
        /\ (n >= 1 /\ requests[1].outcome = "pending") => n = 1
        /\ Cardinality({j \in 1..n : requests[j].outcome = "pending"}) <= 1
        /\ (upc = "done") <=> (returned # <<>>)
        /\ upc = "done" => \A j \in 1..n : requests[j].outcome # "pending"
        /\ (upc = "done" /\ url # "") => returned = <<Below(requests[n])>>

C18_Witness ==
    /\ upc = "done" /\ url # "" /\ successStatusBelowOpt = <<>>
    /\ Len(requests) = 2
    /\ requests[1].outcome = "aborted"
    /\ requests[2].outcome = "response" /\ requests[2].status = 399
    /\ returned = <<TRUE>>

\* C21: once the promise of processBatch has rejected, no further processor
\* invocation is started, neither for a remaining item of the current batch
\* nor for an item of a later batch, and no pause begins.
C21_NothingStartedAfterRejection ==
    [][rejection # NoValue =>
          /\ started' = started
          /\ pauses' = pauses
          /\ pc' = "rejected"
          /\ bi' = bi
          /\ rejection' = rejection]_vars

C21_Witness ==
    /\ Plain /\ Rejected /\ rejection # NoValue /\ delay > 0
    /\ bi < Len(batches)
    /\ \E it \in Range(batches[bi]) : inv[it].st = "idle"
    /\ \E it \in Range(items) : inv[it].st = "fulfilled" /\ it \notin Range(results)
    /\ InFlight = {}

\* Items of the current batch whose processor has not been called.
C22_Unstarted == {it \in Range(batches[bi]) : inv[it].st = "idle"}

\* C22: with concurrency c below the batch length, the runner is blocked inside
\* a batch with unstarted items only while at least c invocations of the batch
\* are pending; and when the race it awaits has settled without a rejection,
\* its resumption is possible and starts the next item at once.
C22_SlotRefill ==
    (bi >= 1 /\ pc = "race" /\ C22_Unstarted # {}) =>
        /\ awaited.st = "pending"
              => Cardinality({it \in Range(batches[bi]) : inv[it].st = "pending"})
                    >= concurrency
        /\ awaited.st = "fulfilled"
              => ENABLED (RaceResume /\ \E it \in C22_Unstarted :
                                           started' = Append(started, it))

C22_Witness ==
    /\ Plain /\ bi >= 1 /\ pc = "race" /\ awaited.st = "pending"
    /\ concurrency = 2 /\ Len(batches[bi]) = 4
    /\ Cardinality(C22_Unstarted) = 1
    /\ \E it \in Range(batches[bi]) : inv[it].st = "fulfilled"
    /\ Cardinality({it \in Range(batches[bi]) : inv[it].st = "pending"}) = 2

\* The index in items of an item.
C23_IndexOf(it) == CHOOSE i \in 1..Len(items) : items[i] = it

\* C23: the processor invocations are started in input order: of two started
\* invocations, the one for the item of lower index was started first, within
\* a batch and across batches.
C23_StartOrderIsInputOrder ==
    \A a, b \in 1..Len(started) :
        a < b => C23_IndexOf(started[a]) < C23_IndexOf(started[b])

C23_Witness ==
    /\ Plain /\ Len(started) = 4 /\ Len(batches) = 2
    /\ BoundedPath(1) /\ ~BoundedPath(2)
    /\ proc[ItemAt(3)] = "ok" /\ proc[ItemAt(1)] = "none"
    /\ started = items

\* C24: in the bounded path an entry leaves the pending pool only when the
\* invocation it tracks has settled: the promise spliced out of executing after
\* the race is never one that is still running.
C24_OnlySettledLeaveThePool ==
    [][(bi' = bi /\ bi >= 1 /\ BoundedPath(bi)) =>
          \A it \in Range(executing) \ Range(executing') : inv[it].st # "pending"]_vars

\* The onError calls a step adds.
C25_NewCalls == {j \in 1..Len(onErrorCalls') : j > Len(onErrorCalls)}

\* C25: the onError call for a failed item is made when its processor call has
\* failed and before its wrapped invocation settles, with the value that
\* becomes the item's entry; so at the call the runner has not recorded an
\* entry for the item, has not freed its slot in the pool, and has not started
\* the batch that follows.
C25_OnErrorBeforeSettlement ==
    [][(Isolated /\ onError = "returns") =>
          \A j \in C25_NewCalls :
              LET it == onErrorCalls'[j].item
              IN  /\ inv[it].st = "pending" /\ inv'[it].st = "fulfilled"
                  /\ proc'[it] \in {"throwError", "throwValue"}
                  /\ inv'[it].v = onErrorCalls'[j].error
                  /\ \A e \in Range(results) \cup Range(batchResults) : e.of # it
                  /\ BoundedPath(BatchOf(it)) => it \in Range(executing)
                  /\ bi = BatchOf(it)]_vars

\* C26: the onError calls respect batch order: when onError is called for an
\* item of batch N, no call has been made for an item of a later batch and no
\* processor invocation of a later batch has been started.
C26_OnErrorInBatchOrder ==
    [][(Isolated /\ onError = "returns") =>
          \A j \in C25_NewCalls :
              /\ \A c \in 1..Len(onErrorCalls) :
                    BatchOf(onErrorCalls[c].item) <= BatchOf(onErrorCalls'[j].item)
              /\ \A st \in Range(started) :
                    BatchOf(st) <= BatchOf(onErrorCalls'[j].item)]_vars

\* The runs C27 is about: processBatch with concurrency 1, or with concurrency
\* at least the length of every batch, and no processor failure.
C27_Case ==
    /\ Plain
    /\ \A it \in Range(items) : ~Failed(it)
    /\ \/ concurrency = 1
       \/ \A b \in 1..Len(batches) : concurrency >= Len(batches[b])

\* C27: with concurrency 1, or concurrency at least the length of every batch,
\* and a processor that never fails, processBatch returns the results in input
\* order, never has more than min(concurrency, batch length) invocations in
\* flight, and has none pending when it resolves; with concurrency 1 an
\* invocation is started only when every earlier one has settled.
C27_SequentialAndUnboundedCases ==
    C27_Case =>
        /\ Resolved => (results = C16_InOrderArray /\ InFlight = {})
        /\ bi >= 1 => Cardinality(InFlight) <= MinNat(concurrency, Len(batches[bi]))
        /\ concurrency = 1 =>
              \A j \in 1..(Len(started) - 1) : inv[started[j]].st = "fulfilled"

C27_Witness ==
    /\ C27_Case /\ Resolved /\ concurrency = 1
    /\ Len(items) = 4 /\ Len(batches) = 2 /\ BoundedPath(1) /\ BoundedPath(2)
    /\ results = C16_InOrderArray

C27_WitnessAll ==
    /\ C27_Case /\ Resolved /\ concurrency = 2
    /\ Len(items) = 4 /\ Len(batches) = 2
    /\ results = C16_InOrderArray

\* C28: with a non-empty items array and batchSize <= 0 the call never invokes
\* the processor and never settles: it stays in the loop of
\* splitArrayIntoChunks, whose index never passes the end of the array.
C28_NonPositiveBatchSizeNeverTerminates ==
    (Len(items) > 0 /\ batchSize <= 0) =>
        /\ pc \in {"idle", "chunking"}
        /\ pc = "idle" => ENABLED Call
        /\ pc = "chunking" => Len(batches) * batchSize < Len(items)
        /\ started = <<>>
        /\ results = <<>>
        /\ rejection = NoValue

C28_Witness ==
    /\ Len(items) = MaxItemsAnyOptions /\ batchSize = MinOption
    /\ pc = "chunking" /\ Len(batches) = MaxChunkIterations
    /\ started = <<>>

\* C29: when onError throws for a failed item the exception is not swallowed:
\* the wrapped invocation of the item rejects with the exception onError threw,
\* and in a batch with concurrency >= batch length
\* processBatchWithErrorHandling rejects with such an exception of an item of
\* that batch.
C29_OnErrorExceptionPropagates ==
    (Isolated /\ onError = "throws") =>
        /\ \A it \in Range(items) :
              Failed(it) => inv[it] = [st |-> "rejected", v |-> OnErrorException(it)]
        /\ Rejected => \E it \in Range(items) :
                          Failed(it) /\ rejection = OnErrorException(it)
        /\ (bi >= 1 /\ ~BoundedPath(bi) /\ \E it \in Range(batches[bi]) : Failed(it)) =>
              \E it \in Range(batches[bi]) :
                  /\ Failed(it)
                  /\ \/ pc = "rejected" /\ rejection = OnErrorException(it)
                     \/ /\ pc = "all"
                        /\ awaited = [st |-> "rejected", v |-> OnErrorException(it)]
                        /\ ENABLED AllResume

C29_Witness ==
    /\ Isolated /\ onError = "throws" /\ Rejected
    /\ bi = 2 /\ ~BoundedPath(bi) /\ Len(batches[bi]) = 2
    /\ rejection = OnErrorException(batches[bi][2])
    /\ proc[batches[bi][1]] = "ok"
    /\ Len(onErrorCalls) = 1

\* C30: every request of checkUrlAvailability arms one abort timer, with the
\* timeout of the call; the timer is armed while the request is pending and is
\* cleared when the request settles, by a response or by an error, so none is
\* armed when the call has returned; a request whose timer fired was aborted,
\* counts as failed and, if it was the HEAD request, is followed by GET.
C30_TimersClearedOrFired ==
    /\ Len(timers) = Len(requests)
    /\ \A j \in 1..Len(requests) :
          /\ timers[j].ms = timeout
          /\ (timers[j].st = "armed") <=> (requests[j].outcome = "pending")
          /\ (timers[j].st = "cleared") <=> (requests[j].outcome \in {"response", "threw"})
          /\ (timers[j].st = "fired") <=> (requests[j].outcome = "aborted")
          /\ requests[j].outcome = "aborted" =>
                /\ requests[j].method = "HEAD" =>
                      (Len(requests) = 2 /\ requests[2].method = "GET")
                /\ (j = Len(requests) /\ upc = "done") => returned = <<FALSE>>
    /\ upc = "done" => \A j \in 1..Len(timers) : timers[j].st # "armed"

C30_Witness ==
    /\ upc = "done" /\ returned = <<TRUE>> /\ timeoutOpt # <<>>
    /\ Len(timers) = 2
    /\ timers[1].st = "fired" /\ timers[2].st = "cleared"
    /\ requests[1].outcome = "aborted" /\ requests[2].outcome = "response"

C30_WitnessFailurePath ==
    /\ upc = "done" /\ returned = <<FALSE>> /\ timeoutOpt = <<>>
    /\ Len(timers) = 2
    /\ timers[1].st = "cleared" /\ timers[2].st = "cleared"
    /\ requests[1].outcome = "threw" /\ requests[2].outcome = "threw"

====
